---- MODULE Spec2Model ----
(***************************************************************************)
(* A model of solar_robot.py: the supervisory loop that reads the solar    *)
(* power output and switches a relay and a lamp, keeping in a state file   *)
(* whether each device was turned on by the script.                        *)
(*                                                                         *)
(* The program is one sequential process (main).  The model follows its    *)
(* program counter from one external call to the next, so that the user    *)
(* (who can toggle a device at any moment), the clock and SIGINT can       *)
(* interleave with it exactly where they can in the program.               *)
(***************************************************************************)
EXTENDS Integers, Sequences, FiniteSets, TLC

(***************************************************************************)
(* Configuration and bounds                                                *)
(***************************************************************************)

\* The two controlled devices ('relay' and 'lamp' in the source).
Device == {"relay", "lamp"}

\* config["high_threshold"] and config["low_threshold"].
HighThreshold == 3
LowThreshold == 1

\* Readings range over 0..MaxPower: below low, on low, inside the band,
\* on high, above high.
MaxPower == 4

\* get_solar_output returns None when the read fails; a register value is
\* never negative.
None == -1

\* The clock counts units of a day; sunrise and sunset of every day.
DayLen == 4
Sunrise == 1
Sunset == 2

Readings == 0..MaxPower

(***************************************************************************)
(* The state file                                                          *)
(***************************************************************************)

\* A JSON object of the state file: the keys "<device>_turned_on_by_script"
\* it holds (named here by their device), each with a boolean.
EmptyObj == [k \in {} |-> FALSE]

JsonObjects == UNION {[K -> BOOLEAN] : K \in SUBSET Device}

\* What can be on disk at config["state_file"]: no file, bytes json.load
\* rejects, JSON that is not an object (a list, a number, null), an object.
Missing == [kind |-> "missing", obj |-> EmptyObj]
Garbage == [kind |-> "garbage", obj |-> EmptyObj]
NonDict == [kind |-> "nondict", obj |-> EmptyObj]
Object(o) == [kind |-> "object", obj |-> o]

FileContents == {Missing, Garbage, NonDict} \cup {Object(o) : o \in JsonObjects}

\* The default of load_state: both flags False.
DefaultState == Object([d \in Device |-> FALSE])

\* Outcomes of open(..., 'w') + json.dump: written; open raised (the file is
\* as it was); the file was truncated by open and the dump raised.
WriteOutcomes == {"ok", "unwritten", "truncated"}

\* load_state(): the parsed value.  readOk = FALSE is open/read raising.
load_state(f, readOk) ==
    IF f.kind = "missing" THEN DefaultState
    ELSE IF ~readOk \/ f.kind = "garbage" THEN DefaultState
    ELSE f

\* How a call of save_state went: "ok" when it read what there was to read
\* and wrote the file; otherwise what went wrong first: load_state could not
\* read an existing file, the loaded value is no object (the item assignment
\* raises TypeError), or the write failed.
save_result(f, readOk, w) ==
    IF f.kind \in {"object", "nondict"} /\ ~readOk THEN "readfail"
    ELSE IF load_state(f, readOk).kind # "object" THEN "typeerror"
    ELSE w

\* save_state writing a fresh record that holds the one flag only, instead
\* of the loaded record with the flag set in it.
save_state_overwrite(f, d, turn_on, readOk, w) ==
    LET state == load_state(f, readOk) IN
    IF state.kind # "object" THEN f
    ELSE CASE w = "ok" -> Object([k \in {d} |-> turn_on])
           [] w = "unwritten" -> f
           [] w = "truncated" -> Garbage

\* save_state(device_type, turn_on): the file afterwards.
save_state(f, d, turn_on, readOk, w) ==
    LET state == load_state(f, readOk) IN
    IF state.kind # "object" THEN f
    ELSE LET merged == [k \in (DOMAIN state.obj) \cup {d} |->
                            IF k = d THEN turn_on ELSE state.obj[k]] IN
         CASE w = "ok" -> Object(merged)
           [] w = "unwritten" -> f
           [] w = "truncated" -> Garbage

\* Whether state = load_state() can be indexed by both keys (main, 164-165).
HasBothKeys(state) == state.kind = "object" /\ DOMAIN state.obj = Device

(***************************************************************************)
(* The devices and the decision                                            *)
(***************************************************************************)

\* A state query that reports the device on when the request fails.
get_shelly_device_state_default_on(on, ok) == ~ok \/ on

\* get_shelly_device_state: 'ison' of the response, False on any failure.
get_shelly_device_state(on, ok) == ok /\ on

\* The outcome of a request to a device, as the log of calls records it.
Outcome(ok) == IF ok THEN "ok" ELSE "fail"

\* The branch with the comparisons taken inclusive (>=, <=).
BranchInclusive(p) ==
    IF p = None THEN "skip"
    ELSE IF p >= HighThreshold THEN "high"
    ELSE IF p <= LowThreshold THEN "low"
    ELSE "within"

\* The branch without the test "power_output is not None".
BranchNoneIsLow(p) ==
    IF p > HighThreshold THEN "high"
    ELSE IF p < LowThreshold THEN "low"
    ELSE "within"

\* The branch main takes on a reading.
Branch(p) ==
    IF p = None THEN "skip"
    ELSE IF p > HighThreshold THEN "high"
    ELSE IF p < LowThreshold THEN "low"
    ELSE "within"

\* has_passed_event("sunset", ...): the current time is after today's sunset.
has_passed_event(t) == t > Sunset

(***************************************************************************)
(* State                                                                   *)
(***************************************************************************)

VARIABLES
    pc,                   \* <<position of main, device it is handling>>
    file,                 \* the content of the state file
    phys,                 \* the physical on/off state of each device
    turned_on_by_script,  \* main's relay_/lamp_turned_on_by_script
    initial_state,        \* main's relay_/lamp_initial_state
    power_output,         \* main's power_output
    calls,                \* device calls and saves of startup / of this iteration
    touched,              \* devices the user toggled since the last reading
    script,               \* readings a scripted power source has yet to give
    now,                  \* the time of day
    sleep_left,           \* what is left of the sleep until sunrise
    sigint                \* a SIGINT has been sent to the process

vars == <<pc, file, phys, turned_on_by_script, initial_state, power_output,
          calls, touched, script, now, sleep_left, sigint>>

NoDevice == [d \in Device |-> FALSE]

At(stage) == <<stage, "-">>

Running == pc[1] \notin {"crashed", "exited"}

\* An entry of the log of calls: a "get" with the state returned, a "set"
\* with the state commanded, a "save" with the flag recorded.
Call(op, d, val, res) == [op |-> op, dev |-> d, val |-> val, res |-> res]

\* The value control_shelly_device is called with in this iteration.
TurnOn == Branch(power_output) = "high"

\* Where main goes when it is done with device d in this iteration.
AfterDevice(d) ==
    IF d = "relay"
    THEN (IF TurnOn THEN <<"ctl", "lamp">> ELSE <<"low_get", "lamp">>)
    ELSE At("sunset")

Init ==
    /\ pc = At("load")
    /\ file \in FileContents
    /\ phys \in [Device -> BOOLEAN]
    /\ turned_on_by_script = NoDevice
    /\ initial_state = NoDevice
    /\ power_output = None
    /\ calls = <<>>
    /\ touched = NoDevice
    /\ script = <<>>
    /\ now \in 0..(DayLen - 1)
    /\ sleep_left = 0
    /\ sigint = FALSE

(***************************************************************************)
(* main: startup                                                           *)
(***************************************************************************)

\* state = load_state(); the two flags are read out of it.  A value that
\* cannot be indexed by both keys raises out of main.
MainLoadState(readOk) ==
    /\ pc = At("load")
    /\ LET state == load_state(file, readOk) IN
       IF HasBothKeys(state)
       THEN /\ turned_on_by_script' = state.obj
            /\ pc' = <<"init_get", "relay">>
       ELSE /\ pc' = At("crashed")
            /\ UNCHANGED turned_on_by_script
    /\ UNCHANGED <<file, phys, initial_state, power_output, calls, touched,
                   script, now, sleep_left,
                   sigint>>

\* relay_initial_state / lamp_initial_state = get_shelly_device_state(...).
MainInitialState(d, ok) ==
    /\ pc = <<"init_get", d>>
    /\ LET result == get_shelly_device_state(phys[d], ok) IN
       /\ initial_state' = [initial_state EXCEPT ![d] = result]
       /\ calls' = Append(calls, Call("get", d, result, Outcome(ok)))
    /\ pc' = IF d = "relay" THEN <<"init_get", "lamp">> ELSE <<"recon", "relay">>
    /\ UNCHANGED <<file, phys, turned_on_by_script, power_output, touched,
                   script, now, sleep_left,
                   sigint>>

\* The reconciliation recording the live state (on) instead of False.
MainReconcileRecordsOn(d, readOk, w) ==
    /\ pc = <<"recon", d>>
    /\ IF initial_state[d] /\ ~turned_on_by_script[d]
       THEN /\ file' = save_state(file, d, TRUE, readOk, w)
            /\ calls' = Append(calls, Call("save", d, TRUE, save_result(file, readOk, w)))
       ELSE /\ readOk /\ w = "ok"
            /\ UNCHANGED <<file, calls>>
    /\ pc' = IF d = "relay" THEN <<"recon", "lamp">> ELSE At("read")
    /\ UNCHANGED <<phys, turned_on_by_script, initial_state, power_output,
                   touched, script, now, sleep_left,
                   sigint>>

\* if <d>_initial_state and not <d>_turned_on_by_script: save_state(d, False)
MainReconcile(d, readOk, w) ==
    /\ pc = <<"recon", d>>
    /\ IF initial_state[d] /\ ~turned_on_by_script[d]
       THEN /\ file' = save_state(file, d, FALSE, readOk, w)
            /\ calls' = Append(calls, Call("save", d, FALSE, save_result(file, readOk, w)))
       ELSE /\ readOk /\ w = "ok"
            /\ UNCHANGED <<file, calls>>
    /\ pc' = IF d = "relay" THEN <<"recon", "lamp">> ELSE At("read")
    /\ UNCHANGED <<phys, turned_on_by_script, initial_state, power_output,
                   touched, script, now, sleep_left,
                   sigint>>

(***************************************************************************)
(* main: the loop                                                          *)
(***************************************************************************)

\* power_output = get_solar_output(), and the branch on it.
GetSolarOutput(r, rest) ==
    /\ pc = At("read")
    /\ power_output' = r
    /\ script' = rest
    /\ calls' = <<>>
    /\ touched' = NoDevice
    /\ pc' = CASE Branch(r) = "high" -> <<"ctl", "relay">>
               [] Branch(r) = "low" -> <<"low_get", "relay">>
               [] OTHER -> At("sunset")
    /\ UNCHANGED <<file, phys, turned_on_by_script, initial_state, now, sleep_left,
                   sigint>>

\* if get_shelly_device_state(...): if <d>_turned_on_by_script: control...
LowGetState(d, ok) ==
    /\ pc = <<"low_get", d>>
    /\ LET result == get_shelly_device_state(phys[d], ok) IN
       /\ calls' = Append(calls, Call("get", d, result, Outcome(ok)))
       /\ pc' = IF result /\ turned_on_by_script[d] THEN <<"ctl", d>> ELSE AfterDevice(d)
    /\ UNCHANGED <<file, phys, turned_on_by_script, initial_state, power_output,
                   touched, script, now, sleep_left,
                   sigint>>

\* control_shelly_device with track_state false: no save_state after 200.
ControlShellyDeviceUntracked(d, ok) ==
    /\ pc = <<"ctl", d>>
    /\ calls' = Append(calls, Call("set", d, TurnOn, Outcome(ok)))
    /\ pc' = AfterDevice(d)
    /\ phys' = IF ok THEN [phys EXCEPT ![d] = TurnOn] ELSE phys
    /\ UNCHANGED <<file, turned_on_by_script, initial_state, power_output,
                   touched, script, now, sleep_left,
                   sigint>>

\* A failed request to a device ending the handling of the tick.
ControlShellyDeviceAborts(d, ok) ==
    /\ pc = <<"ctl", d>>
    /\ calls' = Append(calls, Call("set", d, TurnOn, Outcome(ok)))
    /\ IF ok
       THEN /\ phys' = [phys EXCEPT ![d] = TurnOn]
            /\ pc' = <<"save", d>>
       ELSE /\ pc' = At("sunset")
            /\ UNCHANGED phys
    /\ UNCHANGED <<file, turned_on_by_script, initial_state, power_output,
                   touched, script, now, sleep_left,
                   sigint>>

\* control_shelly_device calling save_state whatever the response was.
ControlShellyDeviceAlwaysSaves(d, ok) ==
    /\ pc = <<"ctl", d>>
    /\ calls' = Append(calls, Call("set", d, TurnOn, Outcome(ok)))
    /\ pc' = <<"save", d>>
    /\ phys' = IF ok THEN [phys EXCEPT ![d] = TurnOn] ELSE phys
    /\ UNCHANGED <<file, turned_on_by_script, initial_state, power_output,
                   touched, script, now, sleep_left,
                   sigint>>

\* control_shelly_device: the request.  On status 200 the device has
\* switched and save_state follows; otherwise nothing else is done.
ControlShellyDevice(d, ok) ==
    /\ pc = <<"ctl", d>>
    /\ calls' = Append(calls, Call("set", d, TurnOn, Outcome(ok)))
    /\ IF ok
       THEN /\ phys' = [phys EXCEPT ![d] = TurnOn]
            /\ pc' = <<"save", d>>
       ELSE /\ pc' = AfterDevice(d)
            /\ UNCHANGED phys
    /\ UNCHANGED <<file, turned_on_by_script, initial_state, power_output,
                   touched, script, now, sleep_left,
                   sigint>>

\* save_state without its try/except: a failure of the save ends main.
SaveAfterControlUnhandled(d, readOk, w) ==
    /\ pc = <<"save", d>>
    /\ file' = save_state(file, d, TurnOn, readOk, w)
    /\ calls' = Append(calls, Call("save", d, TurnOn, save_result(file, readOk, w)))
    /\ pc' = IF save_result(file, readOk, w) = "ok" THEN AfterDevice(d)
             ELSE At("crashed")
    /\ UNCHANGED <<phys, turned_on_by_script, initial_state, power_output,
                   touched, script, now, sleep_left,
                   sigint>>

\* control_shelly_device: save_state(device_type, turn_on) after status 200.
SaveAfterControl(d, readOk, w) ==
    /\ pc = <<"save", d>>
    /\ file' = save_state(file, d, TurnOn, readOk, w)
    /\ calls' = Append(calls, Call("save", d, TurnOn, save_result(file, readOk, w)))
    /\ pc' = AfterDevice(d)
    /\ UNCHANGED <<phys, turned_on_by_script, initial_state, power_output,
                   touched, script, now, sleep_left,
                   sigint>>

\* if has_passed_event("sunset", ...): wait_until_sunrise(...) else sleep(5)
SunsetCheck ==
    /\ pc = At("sunset")
    /\ pc' = IF has_passed_event(now) THEN At("wait") ELSE At("sleep5")
    /\ UNCHANGED <<file, phys, turned_on_by_script, initial_state, power_output,
                   calls, touched, script, now, sleep_left,
                   sigint>>

\* wait_until_sunrise: reads the clock again; after sunset it sleeps until
\* tomorrow's sunrise, otherwise it returns at once.
WaitUntilSunrise ==
    /\ pc = At("wait")
    /\ IF now > Sunset
       THEN /\ sleep_left' = (DayLen + Sunrise) - now
            /\ pc' = At("longsleep")
       ELSE /\ pc' = At("read")
            /\ UNCHANGED sleep_left
    /\ UNCHANGED <<file, phys, turned_on_by_script, initial_state, power_output,
                   calls, touched, script, now,
                   sigint>>

\* time.sleep(sleep_duration) returns.
LongSleepWake ==
    /\ pc = At("longsleep")
    /\ sleep_left = 0
    /\ pc' = At("read")
    /\ UNCHANGED <<file, phys, turned_on_by_script, initial_state, power_output,
                   calls, touched, script, now, sleep_left,
                   sigint>>

\* time.sleep(5) returns (five seconds are less than a unit of the clock).
ShortSleep ==
    /\ pc = At("sleep5")
    /\ pc' = At("read")
    /\ UNCHANGED <<file, phys, turned_on_by_script, initial_state, power_output,
                   calls, touched, script, now, sleep_left,
                   sigint>>

(***************************************************************************)
(* The environment                                                         *)
(***************************************************************************)

\* The user switches a device by hand.
UserToggle(d) ==
    /\ Running
    /\ phys' = [phys EXCEPT ![d] = ~phys[d]]
    /\ touched' = [touched EXCEPT ![d] = TRUE]
    /\ UNCHANGED <<pc, file, turned_on_by_script, initial_state, power_output,
                   calls, script, now, sleep_left,
                   sigint>>

\* Time passes.
ClockAdvance ==
    /\ Running
    /\ now' = (now + 1) % DayLen
    /\ sleep_left' = IF sleep_left > 0 THEN sleep_left - 1 ELSE 0
    /\ UNCHANGED <<pc, file, phys, turned_on_by_script, initial_state,
                   power_output, calls, touched, script,
                   sigint>>

\* A SIGINT is sent to the process.
Sigint ==
    /\ Running
    /\ ~sigint
    /\ sigint' = TRUE
    /\ UNCHANGED <<pc, file, phys, turned_on_by_script, initial_state,
                   power_output, calls, touched, script, now, sleep_left>>

\* A handler that runs only once time.sleep has returned.
signal_handler_after_sleep ==
    /\ Running
    /\ pc = At("longsleep") => sleep_left = 0
    /\ pc' = At("exited")
    /\ turned_on_by_script' = NoDevice
    /\ initial_state' = NoDevice
    /\ power_output' = None
    /\ calls' = <<>>
    /\ touched' = NoDevice
    /\ UNCHANGED <<file, phys, script, now, sleep_left,
                   sigint>>

\* SIGINT: signal_handler logs and calls sys.exit(0); SystemExit is not an
\* Exception, so no handler of the program stops it, and a time.sleep in
\* progress is abandoned.  The process's memory is gone with it.
signal_handler ==
    /\ Running
    /\ pc' = At("exited")
    /\ turned_on_by_script' = NoDevice
    /\ initial_state' = NoDevice
    /\ power_output' = None
    /\ calls' = <<>>
    /\ touched' = NoDevice
    /\ UNCHANGED <<file, phys, script, now, sleep_left,
                   sigint>>

(***************************************************************************)
(* The ownership store on its own                                          *)
(***************************************************************************)

\* save_state(d, turn_on) called on any content of the state file.
RecordOwnership(d, turn_on, readOk, w) ==
    /\ pc = At("store")
    /\ file' = save_state(file, d, turn_on, readOk, w)
    /\ calls' = <<Call("save", d, turn_on, save_result(file, readOk, w))>>
    /\ UNCHANGED <<pc, phys, turned_on_by_script, initial_state, power_output,
                   touched, script, now, sleep_left,
                   sigint>>

(***************************************************************************)
(* Specifications                                                          *)
(***************************************************************************)

\* The program in its environment: every call can fail, the user toggles
\* devices, time passes, SIGINT can arrive.
Next ==
    \/ \E readOk \in BOOLEAN : MainLoadState(readOk)
    \/ \E d \in Device, ok \in BOOLEAN : MainInitialState(d, ok)
    \/ \E d \in Device, readOk \in BOOLEAN, w \in WriteOutcomes : MainReconcile(d, readOk, w)
    \/ \E r \in Readings \cup {None} : GetSolarOutput(r, script)
    \/ \E d \in Device, ok \in BOOLEAN : LowGetState(d, ok)
    \/ \E d \in Device, ok \in BOOLEAN : ControlShellyDevice(d, ok)
    \/ \E d \in Device, readOk \in BOOLEAN, w \in WriteOutcomes : SaveAfterControl(d, readOk, w)
    \/ SunsetCheck
    \/ WaitUntilSunrise
    \/ LongSleepWake
    \/ ShortSleep
    \/ \E d \in Device : UserToggle(d)
    \/ ClockAdvance
    \/ signal_handler

Spec == Init /\ [][Next]_vars

\* The same program when no call fails: every reading is present, every
\* request to a device is answered with status 200, every read and write of
\* the state file succeeds.  The user, the clock and SIGINT are as in Spec.
NextReliable ==
    \/ MainLoadState(TRUE)
    \/ \E d \in Device : MainInitialState(d, TRUE)
    \/ \E d \in Device : MainReconcile(d, TRUE, "ok")
    \/ \E r \in Readings : GetSolarOutput(r, script)
    \/ \E d \in Device : LowGetState(d, TRUE)
    \/ \E d \in Device : ControlShellyDevice(d, TRUE)
    \/ \E d \in Device : SaveAfterControl(d, TRUE, "ok")
    \/ SunsetCheck
    \/ WaitUntilSunrise
    \/ LongSleepWake
    \/ ShortSleep
    \/ \E d \in Device : UserToggle(d)
    \/ ClockAdvance
    \/ signal_handler

SpecReliable == Init /\ [][NextReliable]_vars

\* The program and SIGINT: a signal is sent at some moment and stays
\* pending until the handler runs.  The interpreter runs the handler of a
\* pending signal as soon as it has control, and a blocking call or sleep is
\* interrupted for it: the handler is not put off for ever.  Nothing is
\* assumed about the clock or about the progress of the loop.
NextSignal ==
    \/ \E readOk \in BOOLEAN : MainLoadState(readOk)
    \/ \E d \in Device, ok \in BOOLEAN : MainInitialState(d, ok)
    \/ \E d \in Device : MainReconcile(d, TRUE, "ok")
    \/ \E r \in Readings \cup {None} : GetSolarOutput(r, script)
    \/ \E d \in Device, ok \in BOOLEAN : LowGetState(d, ok)
    \/ \E d \in Device, ok \in BOOLEAN : ControlShellyDevice(d, ok)
    \/ \E d \in Device : SaveAfterControl(d, TRUE, "ok")
    \/ SunsetCheck
    \/ WaitUntilSunrise
    \/ LongSleepWake
    \/ ShortSleep
    \/ ClockAdvance
    \/ Sigint
    \/ (sigint /\ signal_handler)

SpecSignal == Init /\ [][NextSignal]_vars /\ WF_vars(sigint /\ signal_handler)

\* The scenario of a scripted power source: both devices off, both stored
\* flags false, three readings (above high, inside the band, below low), no
\* call fails, nobody toggles a device.
ScenarioScripts ==
    {<<a, b, c>> : a \in {r \in Readings : r > HighThreshold},
                   b \in {r \in Readings : LowThreshold <= r /\ r <= HighThreshold},
                   c \in {r \in Readings : r < LowThreshold}}

InitScenario ==
    /\ pc = At("load")
    /\ file \in {Missing, DefaultState}
    /\ phys = NoDevice
    /\ turned_on_by_script = NoDevice
    /\ initial_state = NoDevice
    /\ power_output = None
    /\ calls = <<>>
    /\ touched = NoDevice
    /\ script \in ScenarioScripts
    /\ now \in 0..(DayLen - 1)
    /\ sleep_left = 0
    /\ sigint = FALSE

NextScenario ==
    \/ MainLoadState(TRUE)
    \/ \E d \in Device : MainInitialState(d, TRUE)
    \/ \E d \in Device : MainReconcile(d, TRUE, "ok")
    \/ (script # <<>> /\ GetSolarOutput(Head(script), Tail(script)))
    \/ \E d \in Device : LowGetState(d, TRUE)
    \/ \E d \in Device : ControlShellyDevice(d, TRUE)
    \/ \E d \in Device : SaveAfterControl(d, TRUE, "ok")
    \/ SunsetCheck
    \/ WaitUntilSunrise
    \/ LongSleepWake
    \/ ShortSleep
    \/ ClockAdvance

SpecScenario == InitScenario /\ [][NextScenario]_vars

\* The ownership store alone: save_state applied, again and again, to
\* every content the state file can have, with every outcome of its read
\* and of its write.
InitStore ==
    /\ pc = At("store")
    /\ file \in FileContents
    /\ phys \in [Device -> BOOLEAN]
    /\ turned_on_by_script = NoDevice
    /\ initial_state = NoDevice
    /\ power_output = None
    /\ calls = <<>>
    /\ touched = NoDevice
    /\ script = <<>>
    /\ now = 0
    /\ sleep_left = 0
    /\ sigint = FALSE

NextStore ==
    \E d \in Device, b \in BOOLEAN, readOk \in BOOLEAN, w \in WriteOutcomes :
        RecordOwnership(d, b, readOk, w)

SpecStore == InitStore /\ [][NextStore]_vars

(***************************************************************************)
(* Vocabulary of the properties                                            *)
(***************************************************************************)

Other(d) == IF d = "relay" THEN "lamp" ELSE "relay"

Last(s) == s[Len(s)]

Below(p) == p # None /\ p < LowThreshold
Above(p) == p # None /\ p > HighThreshold
InBand(p) == p # None /\ LowThreshold <= p /\ p <= HighThreshold

\* The flag of device d as load() reads it from the store.
StoreFlag(f, d) ==
    LET s == load_state(f, TRUE) IN
    s.kind = "object" /\ d \in DOMAIN s.obj /\ s.obj[d]

\* This step adds one entry to the log of calls.
Appended == Len(calls') = Len(calls) + 1

\* This step issues a setState call for device d.
SetIssued(d) == Appended /\ Last(calls').op = "set" /\ Last(calls').dev = d

\* This step is the low branch's state query of device d, and it finds d on.
QueryFoundOn(d) ==
    /\ pc = <<"low_get", d>>
    /\ Appended
    /\ Last(calls').op = "get" /\ Last(calls').dev = d /\ Last(calls').val

IsSet(c) == c.op = "set"
IsDeviceCall(c) == c.op \in {"get", "set"}
Sets(cs) == SelectSeq(cs, IsSet)

AllOk(cs) == \A i \in 1..Len(cs) : cs[i].res = "ok"

\* The state file holds both flags.
WellFormed(f) == f.kind = "object" /\ DOMAIN f.obj = Device

(***************************************************************************)
(* C1                                                                      *)
(***************************************************************************)

\* C1: in a tick whose reading is below the low threshold, while a device is
\* physically on and its stored flag is false (on by the user), no step
\* issues a setState call for that device and its stored flag stays false.
C1_UserNeverOverridden ==
    [][\A d \in Device :
          (Below(power_output) /\ phys[d] /\ ~StoreFlag(file, d))
              => (~SetIssued(d) /\ ~StoreFlag(file', d))]_vars

(***************************************************************************)
(* C2                                                                      *)
(***************************************************************************)

\* C2: in a tick whose reading is below the low threshold, a device the
\* state query finds on and whose stored flag is true gets a setState(off)
\* call, only one, and when the call and the save after it succeed the
\* stored flag is false.
C2_ScriptOwnedTurnedOff ==
    [][\A d \in Device :
          /\ (Below(power_output) /\ QueryFoundOn(d) /\ StoreFlag(file, d))
                => pc' = <<"ctl", d>>
          /\ (Below(power_output) /\ SetIssued(d))
                => (~Last(calls').val /\ \A i \in 1..Len(calls) :
                        ~(calls[i].op = "set" /\ calls[i].dev = d))
          /\ (Below(power_output) /\ pc = <<"save", d>> /\ Appended
                 /\ Last(calls').res = "ok")
                => ~StoreFlag(file', d)]_vars

(***************************************************************************)
(* C3                                                                      *)
(***************************************************************************)

TurnBoth(on) == <<Call("set", "relay", on, "ok"), Call("set", "lamp", on, "ok")>>

\* C3: in the scenario (both devices off, both flags false, readings above
\* high, inside the band, below low), at the end of the first tick the loop
\* has turned both devices on, at the end of the second it has made no
\* device call, at the end of the third it has turned both devices off.
C3_ScenarioCalls ==
    pc = At("sunset") =>
        CASE Len(script) = 2 -> Sets(calls) = TurnBoth(TRUE)
          [] Len(script) = 1 -> SelectSeq(calls, IsDeviceCall) = <<>>
          [] Len(script) = 0 -> Sets(calls) = TurnBoth(FALSE)
          [] OTHER -> TRUE

(***************************************************************************)
(* C4                                                                      *)
(***************************************************************************)

\* C4: at the end of a tick whose reading is above the high threshold and
\* whose gateway and store calls all succeeded, both stored flags are true
\* and both devices are on (a device the user switched during the tick
\* aside), whatever the devices and flags were before.
C4_HighTurnsBothOn ==
    (pc = At("sunset") /\ Above(power_output) /\ AllOk(calls))
        => \A d \in Device : StoreFlag(file, d) /\ (phys[d] \/ touched[d])

\* The end of such a tick: four successful calls, both devices on.
C4_Witness ==
    /\ pc = At("sunset") /\ Above(power_output) /\ AllOk(calls)
    /\ Len(calls) = 4
    /\ touched = NoDevice
    /\ \A d \in Device : phys[d] /\ StoreFlag(file, d)

(***************************************************************************)
(* C5                                                                      *)
(***************************************************************************)

\* C5: in a tick whose reading is above the high threshold no setState call
\* is issued for a device that is physically on.
C5_NoCallWhenAlreadyOn ==
    [][\A d \in Device : (Above(power_output) /\ SetIssued(d)) => ~phys[d]]_vars

(***************************************************************************)
(* C6                                                                      *)
(***************************************************************************)

\* C6: while the reading of the tick is inside the band [low, high], no
\* step issues a setState call and no step changes the state file.
C6_BandIsNoOp ==
    [][InBand(power_output)
          => (file' = file /\ \A d \in Device : ~SetIssued(d))]_vars

\* A tick with the reading on the high threshold, over a relay that is on
\* and script-owned: nothing was called.
C6_Witness ==
    /\ pc = At("sleep5") /\ power_output = HighThreshold
    /\ calls = <<>>
    /\ phys["relay"] /\ StoreFlag(file, "relay")

(***************************************************************************)
(* C7                                                                      *)
(***************************************************************************)

\* This step is main's reconciliation of device d.
ReconcileStep(d) == pc = <<"recon", d>> /\ pc' \notin {pc, At("exited")}

SaveLostRecord == Appended /\ Last(calls').res \in {"readfail", "truncated"}

RecordStep(d, b) ==
    /\ pc = At("store")
    /\ Len(calls') = 1
    /\ calls'[1].op = "save" /\ calls'[1].dev = d /\ calls'[1].val = b

\* The key is in both records with one value, or in neither.
SameFlag(o1, o2, k) ==
    /\ (k \in DOMAIN o1) = (k \in DOMAIN o2)
    /\ (k \in DOMAIN o1) => o1[k] = o2[k]

\* load() after the step gives flag(d) = b and the other flag as load()
\* gave it before the step.
RoundTrip(d, b) ==
    LET before == load_state(file, TRUE)
        after == load_state(file', TRUE) IN
    /\ after.kind = "object"
    /\ d \in DOMAIN after.obj /\ after.obj[d] = b
    /\ SameFlag(before.obj, after.obj, Other(d))

C9_CorruptStoreNotFatal ==
    /\ pc # At("crashed")
    /\ (pc[1] = "init_get" /\ ~WellFormed(file))
            => turned_on_by_script = NoDevice
    /\ (calls # <<>> /\ Last(calls).op = "save" /\ Last(calls).res = "ok")
            => WellFormed(file)

(***************************************************************************)
(* C10                                                                     *)
(***************************************************************************)

\* C10: a tick whose reading is absent goes from the reading straight to
\* the sunset check with no call made, and until the next reading no step
\* makes a device call or changes the state file: main only moves on to the
\* sleep decision, the sleep, and the next reading.
C10_AbsentReadingSkips ==
    [][/\ (pc = At("read") /\ pc' \notin {pc, At("exited")} /\ power_output' = None)
            => (pc' = At("sunset") /\ calls' = <<>> /\ file' = file)
       /\ (power_output = None /\ pc[1] \in {"sunset", "wait", "sleep5", "longsleep"})
            => /\ file' = file /\ calls' = <<>>
               /\ pc'[1] \in {"sunset", "wait", "sleep5", "longsleep", "read", "exited"}
       /\ (pc[1] \in {"low_get", "ctl", "save"}) => power_output # None]_vars

\* After an absent reading, with a script-owned relay on: the loop is in
\* its short sleep and has called nothing.
C10_Witness ==
    /\ pc = At("sleep5") /\ power_output = None
    /\ calls = <<>>
    /\ phys["relay"] /\ StoreFlag(file, "relay")

(***************************************************************************)
(* C11                                                                     *)
(***************************************************************************)

\* The program's own step out of the given stage (not a step of the user,
\* of the clock, or the exit on SIGINT).
StepFrom(stage) == pc[1] = stage /\ pc' \notin {pc, At("exited")}

\* C11: a sunset check made after today's sunset takes the branch of the
\* long sleep and the loop then sleeps for (tomorrow's sunrise) - (now),
\* which is positive; a check made when the sunset has not passed takes the
\* short sleep.
C11_SleepChoice ==
    [][/\ (StepFrom("sunset") /\ now > Sunset) => pc' = At("wait")
       /\ (StepFrom("sunset") /\ ~(now > Sunset)) => pc' = At("sleep5")
       /\ StepFrom("wait")
            => /\ pc' = At("longsleep")
               /\ sleep_left' = (DayLen + Sunrise) - now
               /\ sleep_left' > 0]_vars

(***************************************************************************)
(* C12                                                                     *)
(***************************************************************************)

\* C12: the process never exits between a set_state answered with 200 and
\* the save_state that records it: while that save is still to be made,
\* no step ends the process.
C12_CooperativeExit ==
    [][pc[1] = "save" => pc' # At("exited")]_vars

(***************************************************************************)
(* C13                                                                     *)
(***************************************************************************)

\* C13: a SIGINT sent at any point, also during the sleep until sunrise,
\* leads to the end of the process, and the exit does not wait for the sleep
\* to elapse (nothing obliges the clock to advance).
C13_SigintLeadsToExit == sigint ~> ~Running

\* The process has exited on a SIGINT sent during the long sleep, with part
\* of the sleep still to go.
C13_Witness ==
    /\ pc = At("exited") /\ sigint
    /\ sleep_left > 0

(***************************************************************************)
(* C14                                                                     *)
(***************************************************************************)

\* C14: whenever the loop decides whether to turn a device off, the flag
\* it consults is the flag the state file holds for that device.
C14_FlagIsCurrent ==
    \A d \in Device :
        pc = <<"low_get", d>> => turned_on_by_script[d] = StoreFlag(file, d)

(***************************************************************************)
(* C15                                                                     *)
(***************************************************************************)

\* This step is the save_state that follows a set_state of device d.
SaveStep(d) == pc = <<"save", d>> /\ pc' \notin {pc, At("exited")}

C16_OffOnlyWhenFoundOn ==
    [][\A d \in Device :
          /\ (SetIssued(d) /\ ~Last(calls').val)
                => /\ Below(power_output)
                   /\ \E i \in 1..Len(calls) : calls[i] = Call("get", d, TRUE, "ok")
          /\ SetIssued(d)
                => ~(\E i \in 1..Len(calls) :
                        /\ calls[i].op = "get" /\ calls[i].dev = d
                        /\ calls[i].res = "fail")]_vars

\* A tick below the low threshold with both devices on and script-owned at
\* startup: the query of the relay failed and no set_state was issued for
\* it; the query of the lamp answered ON and the lamp was turned off.
C16_Witness ==
    /\ Below(power_output)
    /\ phys["relay"] /\ turned_on_by_script["relay"] /\ turned_on_by_script["lamp"]
    /\ calls = <<Call("get", "relay", FALSE, "fail"),
                 Call("get", "lamp", TRUE, "ok"),
                 Call("set", "lamp", FALSE, "ok")>>

(***************************************************************************)
(* C17                                                                     *)
(***************************************************************************)

\* The stages of the loop in which main is not asleep.
LoopStages == {"read", "low_get", "ctl", "save", "sunset", "wait", "sleep5"}

\* How far a stage is from the next reading, in steps of main at most.
Rank(p) ==
    CASE p[1] = "read" -> 10
      [] p[1] \in {"low_get", "ctl", "save"} ->
            (IF p[2] = "relay" THEN 6 ELSE 3)
            + (CASE p[1] = "low_get" -> 3 [] p[1] = "ctl" -> 2 [] OTHER -> 1)
      [] p[1] = "sunset" -> 3
      [] p[1] \in {"wait", "sleep5"} -> 2
      [] p[1] = "longsleep" -> 1
      [] OTHER -> 0

\* main has a step to take, whatever the calls of that step answer.
LoopCanStep ==
    pc[1] \in LoopStages => ENABLED (Next /\ pc' \notin {pc, At("exited")})

\* C17: no failure of a reading, a state query, a set_state or a save
\* stops the loop: in every stage of a tick main has a next step, no step
\* of the loop ends in a crash, and every step brings main nearer to its
\* sleep decision, its sleep, and the next reading.
C17_NoFailureStopsLoop ==
    /\ []LoopCanStep
    /\ [][\A stage \in LoopStages \cup {"longsleep"} :
            StepFrom(stage)
                => /\ pc' # At("crashed")
                   /\ Rank(pc') < Rank(pc)
                        \/ (pc' = At("read") /\ stage \in {"wait", "sleep5", "longsleep"})
                   /\ stage = "sunset" => pc'[1] \in {"wait", "sleep5"}]_vars

\* A tick above the high threshold in which the set_state of the relay
\* failed and the save after the lamp's set_state cut the state file short:
\* main has reached its short sleep.
C17_Witness ==
    /\ pc = At("sleep5")
    /\ calls = <<Call("set", "relay", TRUE, "fail"),
                 Call("set", "lamp", TRUE, "ok"),
                 Call("save", "lamp", TRUE, "truncated")>>

(***************************************************************************)
(* C18                                                                     *)
(***************************************************************************)

\* C18: every tick sleeps exactly once before the next reading: a reading
\* is taken only after the reconciliation, after the short sleep, or after
\* the long sleep, and wait_until_sunrise always sleeps.
C18_OneSleepPerTick ==
    [][/\ (pc # At("read") /\ pc' = At("read"))
            => pc[1] \in {"recon", "sleep5", "longsleep"}
       /\ StepFrom("sleep5") => pc' = At("read")
       /\ StepFrom("longsleep") => pc' = At("read")]_vars

(***************************************************************************)
(* C19                                                                     *)
(***************************************************************************)

IsLampCall(c) == c.dev = "lamp" /\ c.op \in {"get", "set"}

\* C19: at the end of every tick the calls made to the lamp are those that
\* the reading, the lamp's answer to its state query and the lamp's flag
\* call for, whatever the calls for the relay and its saves answered:
\* above high one set_state(on); below low one state query, followed by
\* one set_state(off) exactly when the query answered ON and the flag is
\* true; otherwise no call.
C19_LampIndependent ==
    pc = At("sunset") =>
        LET lc == SelectSeq(calls, IsLampCall) IN
        CASE Above(power_output) ->
                Len(lc) = 1 /\ lc[1].op = "set" /\ lc[1].val
          [] Below(power_output) ->
                /\ Len(lc) >= 1 /\ lc[1].op = "get"
                /\ IF lc[1].val /\ turned_on_by_script["lamp"]
                   THEN Len(lc) = 2 /\ lc[2].op = "set" /\ ~lc[2].val
                   ELSE Len(lc) = 1
          [] OTHER -> lc = <<>>

\* A tick below the low threshold in which the set_state(off) of the relay
\* failed: the lamp has been queried, turned off and recorded all the same.
C19_Witness ==
    /\ pc = At("sunset") /\ Below(power_output)
    /\ calls = <<Call("get", "relay", TRUE, "ok"),
                 Call("set", "relay", FALSE, "fail"),
                 Call("get", "lamp", TRUE, "ok"),
                 Call("set", "lamp", FALSE, "ok"),
                 Call("save", "lamp", FALSE, "ok")>>

====
